---- MODULE Spec2Model ----
(***************************************************************************)
(* The image generation flow of falai-app: the request dispatcher          *)
(* generateImage (services/generate-image), the credential rotation it     *)
(* calls (handleBalanceExhaustedError of services/api-key-manager) and the *)
(* component ImageGenerator.vue that drives them (handleGenerate,          *)
(* ensureValidNumImages, initParameters, handleLoadSettings).              *)
(*                                                                         *)
(* Strings of the program are kept as sequences of words, so that         *)
(* String.includes, the regular expression /\{.*\}/s and JSON.parse are    *)
(* computed on the text and not assumed.                                   *)
(***************************************************************************)
EXTENDS Integers, Sequences, FiniteSets, TLC

\* ------------------------------------------------------------------ bounds
\* Longest credential list (localStorage 'fal-ai-api-keys') explored.
MaxKeys == 3
\* Most images one outbound call returns.
MaxImages == 2
\* Largest num_images a settings form or a saved setting carries.
MaxNumImages == 6
\* handleGenerate invocations per behaviour (clicks and timer retries).
MaxGenerations == 2

\* The ceiling ensureValidNumImages enforces.
NumImagesLimit == 4

\* ------------------------------------------------------------- text values
\* A text is a sequence of words.  JS: s.trim() === ''.
IsBlank(s) == \A i \in 1..Len(s) : s[i] = " "

\* JS: s.includes(w) for a one-word needle.
IncludesWord(s, w) == \E i \in 1..Len(s) : s[i] = w

\* JS: s.includes('Exhausted balance').
IncludesFragment(s) ==
    \E i \in 1..(Len(s) - 1) : s[i] = "Exhausted" /\ s[i + 1] = "balance"

\* JS: errorMessage.match(/\{.*\}/s): with the s flag the dot also matches
\* line ends, and .* is greedy, so the match runs from the first "{" to the
\* last "}" of the message.  <<>> stands for no match (null).
MatchBraces(s) ==
    LET opens == {i \in 1..Len(s) : s[i] = "{"}
        first == CHOOSE i \in opens : \A j \in opens : i <= j
        closes == {i \in 1..Len(s) : s[i] = "}" /\ i > first}
        last == CHOOSE i \in closes : \A j \in closes : i >= j
    IN  IF opens = {} \/ (opens # {} /\ closes = {}) THEN <<>>
        ELSE SubSeq(s, first, last)

\* JSON.parse of a matched block.  The JSON texts of the model are objects of
\* at most one member: "{" "}" or "{" key value "}", where the key is one word
\* ending in ":" and the value is either the number word "5" or a string, a
\* run of words without braces and keys.  Anything else is a SyntaxError.
JsonKeys == {"detail:", "code:"}
IsJsonStringBody(ws) ==
    \A i \in 1..Len(ws) : ws[i] \notin (JsonKeys \cup {"{", "}", "5"})
JsonParses(b) ==
    \/ b = <<"{", "}">>
    \/ /\ Len(b) >= 4
       /\ b[1] = "{" /\ b[Len(b)] = "}"
       /\ b[2] \in JsonKeys
       /\ \/ (Len(b) = 4 /\ b[3] = "5")
          \/ IsJsonStringBody(SubSeq(b, 3, Len(b) - 1))
\* errorJson.detail of a block that parses: present, and a string or a number.
JsonHasDetail(b) == Len(b) >= 4 /\ b[2] = "detail:"
JsonDetailIsString(b) == JsonHasDetail(b) /\ ~(Len(b) = 4 /\ b[3] = "5")
JsonDetail(b) == SubSeq(b, 3, Len(b) - 1)

\* ------------------------------------------------------------ error values
\* What the outbound call (fal.subscribe) or the dispatcher's own checks can
\* throw.  isObject: error && typeof error === 'object'.  isError: error
\* instanceof Error.  hasStatus, hasBody, hasMessage: 'status' in error,
\* 'body' in error, 'message' in error.  bodyTruthy: error.body is an object.
\* detailKind: what error.body.detail is.  messageIsString: false for a
\* message that is undefined, null or a number.
MkError(isObject, isError, status, bodyKind, detailKind, detail, messageKind, message) ==
    [isObject |-> isObject, isError |-> isError,
     hasStatus |-> status # 0, status |-> status,
     hasBody |-> bodyKind # "absent", bodyTruthy |-> bodyKind = "object",
     detailKind |-> detailKind, detail |-> detail,
     hasMessage |-> messageKind # "absent",
     messageIsString |-> messageKind = "string", message |-> message]

\* new ApiError({message, status, body}) of @fal-ai/client.
ApiError(status, detailKind, detail, message) ==
    MkError(TRUE, TRUE, status, "object", detailKind, detail, "string", message)
\* new Error(message).
PlainError(message) ==
    MkError(TRUE, TRUE, 0, "absent", "absent", <<>>, "string", message)

BalanceDetail == <<"User", "is", "locked.", "Exhausted", "balance", "Top", "up">>
ForbiddenText == <<"Forbidden">>
ServerErrorText == <<"Request", "failed:", "500", "Internal", "Server", "Error">>
ForbiddenBalanceText == <<"403", "Forbidden:", "Exhausted", "balance">>
JsonBalanceText == <<"Error:", "{", "detail:", "Exhausted", "balance", "}">>
JsonOtherText == <<"Error:", "{", "detail:", "Not", "found", "}">>
JsonNumberText == <<"{", "detail:", "5", "}">>
JsonBrokenText == <<"{", "detail:", "}">>
TwoBlocksText ==
    <<"{", "detail:", "Exhausted", "balance", "}", "and", "{", "code:", "x", "}">>
FragmentOnlyText == <<"Exhausted", "balance">>

\* line 18: throw new Error("请先设置您的FAL.AI API密钥")
MissingKeyText == <<"set", "your", "FAL.AI", "API", "key", "first">>
\* line 49: throw new Error("未生成图像")
NoImagesText == <<"no", "images", "generated">>
\* line 152: "生成图像失败"
GenericFailureText == <<"image", "generation", "failed">>
\* lines 94, 117, 139: "所有API密钥余额不足，请添加新的API密钥或充值"
AllKeysExhaustedText == <<"all", "API", "keys", "are", "out", "of", "balance">>

MissingKeyError == PlainError(MissingKeyText)
NoImagesError == PlainError(NoImagesText)

\* The error values the outbound call is let to throw.
Errors ==
    { ApiError(403, "string", BalanceDetail, ForbiddenText),
      ApiError(403, "string", BalanceDetail, ForbiddenBalanceText),
      ApiError(403, "string", <<"Not", "allowed">>, ForbiddenText),
      ApiError(500, "string", BalanceDetail, ServerErrorText),
      ApiError(403, "number", <<>>, ForbiddenText),
      PlainError(ForbiddenBalanceText),
      PlainError(JsonBalanceText),
      PlainError(JsonOtherText),
      PlainError(JsonNumberText),
      PlainError(JsonBrokenText),
      PlainError(TwoBlocksText),
      PlainError(FragmentOnlyText),
      PlainError(ServerErrorText),
      \* a plain object { message: "..." } that is no Error
      MkError(TRUE, FALSE, 0, "absent", "absent", <<>>, "string", ServerErrorText),
      \* { status: 403, body: null }
      MkError(TRUE, FALSE, 403, "null", "absent", <<>>, "absent", <<>>),
      \* { message: undefined }
      MkError(TRUE, FALSE, 0, "absent", "absent", <<>>, "nonString", <<>>),
      \* throw "a string"
      MkError(FALSE, FALSE, 0, "absent", "absent", <<>>, "absent", <<>>) }

\* SignalBody with the status of another refusal.
SignalBodyUnauthorized(e) ==
    /\ e.hasStatus /\ e.hasBody
    /\ e.status = 401
    /\ e.bodyTruthy
    /\ e.detailKind = "string" /\ e.detail # <<>>
    /\ IncludesFragment(e.detail)

\* SignalBody without the test of the status at line 77.
SignalBodyAnyStatus(e) ==
    /\ e.hasStatus /\ e.hasBody
    /\ e.bodyTruthy
    /\ e.detailKind = "string" /\ e.detail # <<>>
    /\ IncludesFragment(e.detail)

\* lines 73-81: the structured signal.
SignalBody(e) ==
    /\ e.hasStatus /\ e.hasBody
    /\ e.status = 403
    /\ e.bodyTruthy
    /\ e.detailKind = "string" /\ e.detail # <<>>
    /\ IncludesFragment(e.detail)

\* SignalMessage without the test for '403'.
SignalMessageFragmentOnly(e) == IncludesFragment(e.message)

\* line 105: the message signal.
SignalMessage(e) ==
    /\ IncludesWord(e.message, "403")
    /\ IncludesFragment(e.message)

\* lines 123-146: the embedded JSON signal; a SyntaxError of JSON.parse and a
\* TypeError of detail.includes are caught at line 144 and match nothing.
SignalJson(e) ==
    LET errorMatch == MatchBraces(e.message)
    IN  /\ errorMatch # <<>>
        /\ JsonParses(errorMatch)
        /\ JsonDetailIsString(errorMatch)
        /\ IncludesFragment(JsonDetail(errorMatch))

\* lines 66-153: what the catch block does with a thrown value: "body",
\* "message" or "json" when that signal is the first to match, "throws" when
\* line 105 calls includes on a message that is no string (a TypeError that
\* leaves the catch block), "none" when it falls through to line 150.
Signal(e) ==
    IF ~e.isObject THEN "none"
    ELSE IF SignalBody(e) THEN "body"
    ELSE IF ~e.hasMessage THEN "none"
    ELSE IF ~e.messageIsString THEN "throws"
    ELSE IF SignalMessage(e) THEN "message"
    ELSE IF SignalJson(e) THEN "json"
    ELSE "none"

\* lines 150-153.
FailureText(e) == IF e.isError THEN e.message ELSE GenericFailureText

\* ------------------------------------------------------- GenerateImageResponse
NoResponse == [kind |-> "none", images |-> <<>>, error |-> <<>>, errorCode |-> ""]
\* lines 58-65
SuccessResponse(images) ==
    [kind |-> "success", images |-> images, error |-> <<>>, errorCode |-> ""]
\* lines 150-153; errorCode "" stands for no errorCode
ErrorResponse(text) ==
    [kind |-> "failure", images |-> <<>>, error |-> text, errorCode |-> ""]
\* AllKeysExhausted with line 95 left out.
AllKeysExhaustedWithoutCode ==
    [kind |-> "failure", images |-> <<>>, error |-> AllKeysExhaustedText,
     errorCode |-> ""]

\* lines 92-96, 115-119, 137-141
AllKeysExhausted ==
    [kind |-> "failure", images |-> <<>>, error |-> AllKeysExhaustedText,
     errorCode |-> "ALL_KEYS_EXHAUSTED"]
\* the promise of generateImage rejected instead of resolving
Rejected == [kind |-> "rejected", images |-> <<>>, error |-> <<>>, errorCode |-> ""]

\* ------------------------------------------------------------ parameter bags
\* A parameter bag (Record<string, any>) is a function from the keys it holds.
\* { ...a, ...b }
Merge(a, b) ==
    [k \in DOMAIN a \cup DOMAIN b |-> IF k \in DOMAIN b THEN b[k] ELSE a[k]]
\* delete bag[key]
Without(bag, key) == [k \in DOMAIN bag \ {key} |-> bag[k]]
EmptyBag == [k \in {} |-> 0]

\* ensureValidNumImages without the comparison of line 19.
ensureValidNumImagesAlways(params) ==
    IF "num_images" \in DOMAIN params /\ params.num_images # 0
    THEN [params EXCEPT !.num_images = NumImagesLimit]
    ELSE params

\* ImageGenerator.vue lines 18-23.  num_images is a number: 0 is falsy.
ensureValidNumImages(params) ==
    IF /\ "num_images" \in DOMAIN params
       /\ params.num_images # 0
       /\ params.num_images > NumImagesLimit
    THEN [params EXCEPT !.num_images = NumImagesLimit]
    ELSE params

\* props.model: its id and its inputSchema, as the keys of the schema and the
\* bag of the defaults the schema gives.
Models ==
    { [id |-> "fal-ai/flux-lora",
       keys |-> {"prompt", "num_images", "loras", "image_size"},
       defaults |-> [num_images |-> MaxNumImages]],
      [id |-> "fal-ai/flux-pro/v1.1",
       keys |-> {"prompt", "image_size", "safety_tolerance"},
       defaults |-> [image_size |-> <<"square">>]] }

\* lines 93-95
hasParameter(m, key) == key \in m.keys

\* lines 35-84: customDefaults
CustomDefaultsFor(m, key, value) ==
    IF hasParameter(m, key) THEN (key :> value) ELSE EmptyBag
customDefaults(m) ==
    LET common ==
            Merge(CustomDefaultsFor(m, "output_format", <<"png">>),
                  CustomDefaultsFor(m, "num_images", 1))
        specific ==
            IF m.id = "fal-ai/flux-pro/v1.1"
            THEN Merge(CustomDefaultsFor(m, "image_size", <<"landscape_16_9">>),
                 Merge(CustomDefaultsFor(m, "enable_safety_checker", FALSE),
                       CustomDefaultsFor(m, "safety_tolerance", <<"6">>)))
            ELSE IF m.id = "fal-ai/flux-pro/v1.1-ultra"
            THEN Merge(CustomDefaultsFor(m, "aspect_ratio", <<"16:9">>),
                 Merge(CustomDefaultsFor(m, "enable_safety_checker", FALSE),
                       CustomDefaultsFor(m, "safety_tolerance", <<"6">>)))
            ELSE IF m.id = "fal-ai/flux-lora"
            THEN Merge(CustomDefaultsFor(m, "image_size", <<"landscape_16_9">>),
                 Merge(CustomDefaultsFor(m, "guidance_scale", 7),
                 Merge(CustomDefaultsFor(m, "num_inference_steps", 40),
                 Merge(CustomDefaultsFor(m, "enable_safety_checker", FALSE),
                       CustomDefaultsFor(m, "loras", <<>>)))))
            ELSE EmptyBag
    IN  Merge(common, specific)

\* lines 26-88
initParameters(m) == ensureValidNumImages(Merge(m.defaults, customDefaults(m)))

\* lines 141-150: drop the loras without a path, and the key when none is left.
FilterLoras(loras) ==
    SelectSeq(loras, LAMBDA lora : lora.path # <<>> /\ ~IsBlank(lora.path))
StripLoras(bag) ==
    IF "loras" \in DOMAIN bag
    THEN IF FilterLoras(bag.loras) = <<>>
         THEN Without(bag, "loras")
         ELSE [bag EXCEPT !.loras = FilterLoras(bag.loras)]
    ELSE bag

\* PrepareParameters without the call of ensureValidNumImages at line 135.
PrepareParametersUnchecked(params, text) ==
    StripLoras(Merge(params, [prompt |-> text]))

\* lines 135-150: the bag handleGenerate sends.
PrepareParameters(params, text) ==
    StripLoras(ensureValidNumImages(Merge(params, [prompt |-> text])))

\* ------------------------------------------------------------- credentials
\* The credentials a user has stored; '' is the absent one.
KeyNames == <<"key-a", "key-b", "key-c", "key-d", "key-e">>
NoKey == ""

\* getActive(): the credential at the active index, or none.
getActive(keys, index) ==
    IF index >= 0 /\ index < Len(keys) THEN keys[index + 1] ELSE NoKey

\* AdvanceIndex going round the list.
AdvanceIndexWrapping(keys, index) ==
    IF Len(keys) = 0 THEN 0 ELSE (index + 1) % Len(keys)

\* advance(): the active index moves to the next entry; past the end the
\* state is exhausted, and stays so.
AdvanceIndex(keys, index) ==
    IF index + 1 < Len(keys) THEN index + 1 ELSE Len(keys)

\* ------------------------------------------------------------------- state
\* handleGenerate invocations that may be in flight at once.
Procs == {1, 2}

VARIABLES
    model,           \* props.model
    apiKeys,         \* localStorage 'fal-ai-api-keys'
    activeKeyIndex,  \* localStorage 'fal-ai-active-key-index' (-1: unset)
    activeKey,       \* localStorage 'fal-ai-active-key' ('' when not stored)
    parameters,      \* ref parameters
    prompt,          \* ref prompt
    result,          \* ref result (<<>> for null)
    isGenerating,    \* ref isGenerating
    pc,              \* where each handleGenerate invocation stands
    apiKey,          \* the credential of the generateImage call in flight
    allParameters,   \* the bag handleGenerate built
    response,        \* what generateImage returned to handleGenerate
    calls,           \* the outbound calls of the invocation, in order
    outcomes,        \* how the outbound calls of the invocation ended
    advances,        \* calls of handleBalanceExhaustedError in the invocation
    saves,           \* the saveGeneration calls of the invocation
    toast,           \* the toast the invocation showed last
    rotations,       \* what each handleBalanceExhaustedError call found and returned
    timers,          \* pending setTimeout(handleGenerate, 1500) callbacks
    generations      \* handleGenerate invocations started so far

vars ==
    <<model, apiKeys, activeKeyIndex, activeKey, parameters, prompt, result,
      isGenerating, pc, apiKey, allParameters, response, calls, outcomes,
      advances, saves, toast, rotations, timers, generations>>

storeVars == <<apiKeys, activeKeyIndex, activeKey>>

\* What the user types into the prompt field, which is empty at first.
Prompts == { <<" ">>, <<"a", "cat">> }

\* Construction: parameters = ref(initParameters()), prompt = ref(''),
\* result = ref(null), isGenerating = ref(false).  The credential store holds
\* what the user set up before: a list, an active index in it or none, and
\* the active credential stored under its own key or not yet.
InitStore ==
    /\ \E n \in 0..MaxKeys : apiKeys = SubSeq(KeyNames, 1, n)
    /\ activeKeyIndex \in -1..(Len(apiKeys) - 1)
    /\ activeKey \in {getActive(apiKeys, activeKeyIndex), NoKey}
    /\ rotations = <<>>

InitIdle ==
    /\ prompt = <<>>
    /\ result = <<>>
    /\ isGenerating = FALSE
    /\ pc = [p \in Procs |-> "idle"]
    /\ apiKey = [p \in Procs |-> NoKey]
    /\ allParameters = [p \in Procs |-> EmptyBag]
    /\ response = [p \in Procs |-> NoResponse]
    /\ calls = [p \in Procs |-> <<>>]
    /\ outcomes = [p \in Procs |-> <<>>]
    /\ advances = [p \in Procs |-> 0]
    /\ saves = [p \in Procs |-> <<>>]
    /\ toast = [p \in Procs |-> "none"]
    /\ timers = 0
    /\ generations = 0

Init ==
    /\ model \in Models
    /\ parameters = initParameters(model)
    /\ InitStore
    /\ InitIdle

\* ------------------------------------------------------ the outbound call
\* How fal.subscribe ends: with a result, whose data.images may be missing or
\* empty, or with a thrown value.
NotThrown == MkError(FALSE, FALSE, 0, "absent", "absent", <<>>, "absent", <<>>)
ImageList(k) == [i \in 1..k |-> i]
Results ==
    { [ok |-> TRUE, hasImages |-> TRUE, images |-> ImageList(k), error |-> NotThrown] :
        k \in 0..MaxImages }
    \cup { [ok |-> TRUE, hasImages |-> FALSE, images |-> <<>>, error |-> NotThrown] }
Failures ==
    { [ok |-> FALSE, hasImages |-> FALSE, images |-> <<>>, error |-> e] : e \in Errors }
Outcomes == Results \cup Failures

\* lines 46-50: what the try block throws after the outbound call ended.
ThrownAfterCall(o) ==
    IF ~o.ok THEN o.error
    ELSE IF ~o.hasImages \/ o.images = <<>> THEN NoImagesError
    ELSE NotThrown
\* Throws without the test images.length === 0 of line 47.
ThrowsWhenMissing(o) == ~o.ok \/ ~o.hasImages

\* lines 27, 47: the try block throws.
Throws(o) == ~o.ok \/ ~o.hasImages \/ o.images = <<>>

\* RetryKey with the credential the failed call was made with.
RetryKeyStale(p, storedKey) == apiKey[p]

\* lines 88, 111, 133: the credential of the retry,
\* localStorage.getItem("fal-ai-active-key") || "".
RetryKey(p, storedKey) == storedKey

\* RetryInput built anew from the form as it is at the time of the retry.
RetryInputFromForm(p) == PrepareParameters(parameters, prompt)

\* lines 88, 111, 133: the bag of the retry is the argument input of the
\* failed call, the object handleGenerate built at line 135.
RetryInput(p) == allParameters[p]

\* handleBalanceExhaustedError(): advance() on the store; its result is the
\* credential it made active, or none.
handleBalanceExhaustedError ==
    /\ activeKeyIndex' = AdvanceIndex(apiKeys, activeKeyIndex)
    /\ activeKey' = getActive(apiKeys, activeKeyIndex')
    /\ rotations' = Append(rotations,
            [from |-> activeKeyIndex, returned |-> getActive(apiKeys, activeKeyIndex')])
    /\ UNCHANGED apiKeys

\* Switched without the test of line 86: the retry is made in any case.
SwitchedAlways == TRUE

\* const switched = handleBalanceExhaustedError(); if (switched)
Switched == rotations'[Len(rotations')].returned # NoKey

\* EnterGenerateImage without the test of line 16.
EnterGenerateImageUnchecked(p, key, input) ==
    /\ calls' = [calls EXCEPT ![p] =
                    Append(@, [key |-> key, modelId |-> model.id, input |-> input])]
    /\ pc' = [pc EXCEPT ![p] = "subscribe"]
    /\ apiKey' = [apiKey EXCEPT ![p] = key]
    /\ UNCHANGED response

\* generateImage lines 15-37, entered with a credential: without one, line 18
\* throws, the catch block matches no signal and line 150 returns; with one,
\* the outbound call is made and the function waits at line 27.
EnterGenerateImage(p, key, input) ==
    IF key = NoKey
    THEN /\ response' = [response EXCEPT ![p] = ErrorResponse(FailureText(MissingKeyError))]
         /\ pc' = [pc EXCEPT ![p] = "returned"]
         /\ apiKey' = [apiKey EXCEPT ![p] = key]
         /\ UNCHANGED calls
    ELSE /\ calls' = [calls EXCEPT ![p] =
                        Append(@, [key |-> key, modelId |-> model.id, input |-> input])]
         /\ pc' = [pc EXCEPT ![p] = "subscribe"]
         /\ apiKey' = [apiKey EXCEPT ![p] = key]
         /\ UNCHANGED response

\* ------------------------------------------------------- ImageGenerator.vue
\* LookupKey that starts every generation from the head of the list.
LookupKeyFromHead(stored, keys, index) ==
    IF Len(keys) > 0 THEN keys[1] ELSE NoKey

\* lines 160-172: the stored active credential, or else the one at the
\* stored index.
LookupKey(stored, keys, index) ==
    IF stored # NoKey THEN stored ELSE getActive(keys, index)

\* handleGenerate, lines 123-188, up to the first outbound call.
BeginGenerate(p) ==
    LET key == LookupKey(activeKey, apiKeys, activeKeyIndex)
        input == PrepareParameters(parameters, prompt)
    IN  /\ advances' = [advances EXCEPT ![p] = 0]
        /\ outcomes' = [outcomes EXCEPT ![p] = <<>>]
        /\ saves' = [saves EXCEPT ![p] = <<>>]
        /\ UNCHANGED <<model, apiKeys, activeKeyIndex, parameters, prompt, result,
                       rotations>>
        /\ IF IsBlank(prompt)
           THEN \* lines 126-129
                /\ toast' = [toast EXCEPT ![p] = "promptMissing"]
                /\ pc' = [pc EXCEPT ![p] = "finished"]
                /\ calls' = [calls EXCEPT ![p] = <<>>]
                /\ response' = [response EXCEPT ![p] = NoResponse]
                /\ allParameters' = [allParameters EXCEPT ![p] = EmptyBag]
                /\ apiKey' = [apiKey EXCEPT ![p] = NoKey]
                /\ UNCHANGED <<activeKey, isGenerating>>
           ELSE /\ allParameters' = [allParameters EXCEPT ![p] = input]
                \* line 170 stores the credential found at the index; the one
                \* read at line 160 is stored already
                /\ activeKey' = key
                /\ IF key = NoKey
                   THEN \* lines 179-185
                        /\ toast' = [toast EXCEPT ![p] = "keyMissing"]
                        /\ isGenerating' = FALSE
                        /\ pc' = [pc EXCEPT ![p] = "finished"]
                        /\ calls' = [calls EXCEPT ![p] = <<>>]
                        /\ response' = [response EXCEPT ![p] = NoResponse]
                        /\ apiKey' = [apiKey EXCEPT ![p] = NoKey]
                   ELSE \* lines 131, 188
                        /\ toast' = [toast EXCEPT ![p] = "none"]
                        /\ isGenerating' = TRUE
                        /\ calls' = [calls EXCEPT ![p] =
                                <<[key |-> key, modelId |-> model.id, input |-> input]>>]
                        /\ response' = [response EXCEPT ![p] = NoResponse]
                        /\ pc' = [pc EXCEPT ![p] = "subscribe"]
                        /\ apiKey' = [apiKey EXCEPT ![p] = key]

\* @generate="handleGenerate": the user starts a generation.
HandleGenerate(p) ==
    /\ pc[p] \in {"idle", "finished"}
    /\ generations < MaxGenerations
    /\ generations' = generations + 1
    /\ BeginGenerate(p)
    /\ UNCHANGED timers

\* lines 258-260: the timer of the catch block starts handleGenerate again.
TimerFire(p) ==
    /\ timers > 0
    /\ pc[p] \in {"idle", "finished"}
    /\ generations < MaxGenerations
    /\ generations' = generations + 1
    /\ timers' = timers - 1
    /\ BeginGenerate(p)

\* The outbound call of p ends with o; generateImage runs on from line 39 or
\* from line 66 to its next outbound call or to its return.
SubscribeSettle(p, o) ==
    /\ pc[p] = "subscribe"
    /\ outcomes' = [outcomes EXCEPT ![p] = Append(@, o)]
    /\ UNCHANGED <<model, parameters, prompt, result, isGenerating, allParameters,
                   saves, toast, timers, generations>>
    /\ IF ~Throws(o)
       THEN \* lines 58-65
            /\ response' = [response EXCEPT ![p] = SuccessResponse(o.images)]
            /\ pc' = [pc EXCEPT ![p] = "returned"]
            /\ UNCHANGED <<storeVars, rotations, apiKey, calls, advances>>
       ELSE LET error == ThrownAfterCall(o)
                signal == Signal(error)
            IN  IF signal = "throws"
                THEN /\ response' = [response EXCEPT ![p] = Rejected]
                     /\ pc' = [pc EXCEPT ![p] = "returned"]
                     /\ UNCHANGED <<storeVars, rotations, apiKey, calls, advances>>
                ELSE IF signal = "none"
                THEN \* lines 150-153
                     /\ response' = [response EXCEPT ![p] = ErrorResponse(FailureText(error))]
                     /\ pc' = [pc EXCEPT ![p] = "returned"]
                     /\ UNCHANGED <<storeVars, rotations, apiKey, calls, advances>>
                ELSE \* lines 84-96, 107-119, 129-141
                     /\ advances' = [advances EXCEPT ![p] = @ + 1]
                     /\ handleBalanceExhaustedError
                     /\ IF Switched
                        THEN EnterGenerateImage(p, RetryKey(p, activeKey'), RetryInput(p))
                        ELSE /\ response' = [response EXCEPT ![p] = AllKeysExhausted]
                             /\ pc' = [pc EXCEPT ![p] = "returned"]
                             /\ UNCHANGED <<apiKey, calls>>

\* Generation with all the images of the response (line 211 without the
\* brackets around the one image).
GenerationOfAllImages(images, i) == [images |-> images, state |-> "pending"]

\* The record handleGenerate saves for the image at index i (lines 204-220).
Generation(images, i) == [images |-> <<images[i]>>, state |-> "pending"]

\* handleGenerate, lines 190-248 and 249-268, after generateImage settled.
GenerateReturn(p) ==
    /\ pc[p] = "returned"
    /\ UNCHANGED <<model, apiKeys, activeKeyIndex, activeKey, parameters, prompt,
                   apiKey, allParameters, response, calls, outcomes, advances,
                   rotations, timers, generations>>
    /\ IF response[p].kind = "success"
       THEN \* lines 199-227
            /\ result' = response[p].images
            /\ saves' = [saves EXCEPT ![p] =
                    [i \in 1..Len(response[p].images) |-> Generation(response[p].images, i)]]
            /\ pc' = [pc EXCEPT ![p] = "saving"]
            /\ UNCHANGED <<isGenerating, toast>>
       ELSE /\ toast' = [toast EXCEPT ![p] =
                    IF response[p].kind = "failure"
                       /\ response[p].errorCode = "ALL_KEYS_EXHAUSTED"
                    THEN "allKeysExhausted"   \* line 240
                    ELSE "generateFailed"]    \* lines 244, 262
            /\ isGenerating' = FALSE          \* line 267
            /\ pc' = [pc EXCEPT ![p] = "finished"]
            /\ UNCHANGED <<result, saves>>

\* How a saveGeneration call ends: saved, or rejected with an error, which may
\* carry status 403 and a message that includes 'balance' (line 253).
SaveResults == {"saved", "failed", "failedForbiddenBalance"}

\* The saveGeneration call i of p ends; await Promise.all (line 227) goes on
\* when all are saved (line 229), or at the first that fails (line 249).
SaveSettle(p, i, r) ==
    /\ pc[p] = "saving"
    /\ i \in 1..Len(saves[p])
    /\ saves[p][i].state = "pending"
    /\ saves' = [saves EXCEPT ![p][i].state = r]
    /\ UNCHANGED <<model, apiKeys, activeKeyIndex, activeKey, parameters, prompt,
                   result, apiKey, allParameters, response, calls, outcomes,
                   advances, rotations, generations>>
    /\ IF r # "saved"
       THEN /\ toast' = [toast EXCEPT ![p] =
                    IF r = "failedForbiddenBalance" THEN "switchingKey"
                    ELSE "generateFailed"]
            /\ timers' = IF r = "failedForbiddenBalance" THEN timers + 1 ELSE timers
            /\ isGenerating' = FALSE
            /\ pc' = [pc EXCEPT ![p] = "finished"]
       ELSE IF \A j \in 1..Len(saves[p]) : j # i => saves[p][j].state = "saved"
       THEN /\ toast' = [toast EXCEPT ![p] = "success"]
            /\ isGenerating' = FALSE
            /\ pc' = [pc EXCEPT ![p] = "finished"]
            /\ UNCHANGED timers
       ELSE UNCHANGED <<toast, timers, isGenerating, pc>>

\* @update:prompt="prompt = $event" (template line 279)
UpdatePrompt(text) ==
    /\ prompt # text
    /\ prompt' = text
    /\ UNCHANGED <<model, apiKeys, activeKeyIndex, activeKey, parameters, result,
                   isGenerating, pc, apiKey, allParameters, response, calls,
                   outcomes, advances, saves, toast, rotations, timers, generations>>

\* One generation at a time: the dispatcher, the rotation and the component
\* with the form left as constructed but for the prompt.
Next ==
    \/ \E text \in Prompts : UpdatePrompt(text)
    \/ HandleGenerate(1)
    \/ TimerFire(1)
    \/ \E o \in Outcomes : SubscribeSettle(1, o)
    \/ GenerateReturn(1)
    \/ \E i \in 1..MaxImages, r \in SaveResults : SaveSettle(1, i, r)

Spec == Init /\ [][Next]_vars

\* ------------------------------------------------ the rotation on its own
\* Calls of handleBalanceExhaustedError explored in a row.
MaxAdvances == 5

Advance ==
    /\ Len(rotations) < MaxAdvances
    /\ handleBalanceExhaustedError
    /\ UNCHANGED <<model, parameters, prompt, result, isGenerating, pc, apiKey,
                   allParameters, response, calls, outcomes, advances, saves,
                   toast, timers, generations>>

SpecRotation == Init /\ [][Advance]_vars

\* ------------------------------------------ ensureValidNumImages on its own
\* The bags a settings form or a saved setting can hold.
NumImagesBags ==
    {EmptyBag} \cup { [num_images |-> n] : n \in -1..MaxNumImages }
OtherBags ==
    { EmptyBag,
      [output_format |-> <<"jpeg">>],
      [loras |-> <<>>],
      [loras |-> << [path |-> <<" ">>, scale |-> 1],
                    [path |-> <<"style">>, scale |-> 1] >>, seed |-> 7] }
Bags == { Merge(a, b) : a \in NumImagesBags, b \in OtherBags }

InitBags ==
    /\ model \in Models
    /\ parameters \in Bags
    /\ InitStore
    /\ InitIdle

\* ensureValidNumImages(parameters), its result kept in allParameters.
Clamp(p) ==
    /\ pc[p] = "idle"
    /\ allParameters' = [allParameters EXCEPT ![p] = ensureValidNumImages(parameters)]
    /\ pc' = [pc EXCEPT ![p] = "clamped"]
    /\ UNCHANGED <<model, apiKeys, activeKeyIndex, activeKey, parameters, prompt,
                   result, isGenerating, apiKey, response, calls, outcomes,
                   advances, saves, toast, rotations, timers, generations>>

SpecClamp == InitBags /\ [][Clamp(1)]_vars

\* ------------------------------------------------------ the settings form
\* What GenerationSettings emits with update:parameters, and what a saved
\* setting holds.
FormNumImages == {NumImagesLimit, MaxNumImages}
FormBags ==
    { EmptyBag, [loras |-> << [path |-> <<"style">>, scale |-> 1] >>] }
    \cup { [num_images |-> n] : n \in FormNumImages }
    \cup { [num_images |-> MaxNumImages, image_size |-> <<"square">>] }
Settings ==
    { [parameters |-> b, prompt |-> t] :
        b \in { EmptyBag, [num_images |-> MaxNumImages, image_size |-> <<"square">>] },
        t \in { <<>>, <<"a", "dog">> } }

\* @update:parameters="parameters = $event" (template line 284)
UpdateParameters(bag) ==
    /\ parameters # bag
    /\ parameters' = bag
    /\ UNCHANGED <<model, apiKeys, activeKeyIndex, activeKey, prompt, result,
                   isGenerating, pc, apiKey, allParameters, response, calls,
                   outcomes, advances, saves, toast, rotations, timers, generations>>

\* lines 109-121
handleLoadSettings(settings) ==
    LET loaded ==
            ensureValidNumImages(Merge(initParameters(model), settings.parameters))
    IN  /\ parameters' =
              IF model.id = "fal-ai/flux-lora" /\ "loras" \notin DOMAIN loaded
              THEN Merge(loaded, [loras |-> <<>>])
              ELSE loaded
        /\ prompt' = settings.prompt
        /\ <<parameters', prompt'>> # <<parameters, prompt>>
        /\ UNCHANGED <<model, apiKeys, activeKeyIndex, activeKey, result,
                       isGenerating, pc, apiKey, allParameters, response, calls,
                       outcomes, advances, saves, toast, rotations, timers,
                       generations>>

\* How the outbound calls end while the form is explored.
FormOutcomes ==
    { o \in Outcomes :
        \/ o.ok /\ o.hasImages /\ Len(o.images) = 1
        \/ ~o.ok /\ o.error \in { ApiError(403, "string", BalanceDetail, ForbiddenText),
                                   PlainError(ServerErrorText) } }

NextForm ==
    \/ \E text \in Prompts : UpdatePrompt(text)
    \/ \E bag \in FormBags : UpdateParameters(bag)
    \/ \E settings \in Settings : handleLoadSettings(settings)
    \/ HandleGenerate(1)
    \/ \E o \in FormOutcomes : SubscribeSettle(1, o)
    \/ GenerateReturn(1)
    \/ SaveSettle(1, 1, "saved")

\* The form is explored on a store with the whole list, its head active.
InitForm ==
    /\ model \in Models
    /\ parameters = initParameters(model)
    /\ apiKeys = SubSeq(KeyNames, 1, MaxKeys)
    /\ activeKeyIndex = 0
    /\ activeKey \in {getActive(apiKeys, activeKeyIndex), NoKey}
    /\ rotations = <<>>
    /\ InitIdle

SpecForm == InitForm /\ [][NextForm]_vars

\* ------------------------------------- the dispatcher called on its own
\* generateImage is exported: in place of handleGenerate (invocation 1)
\* another caller (invocation 2) calls it, with a credential of the list or
\* with none, on the store as it was set up.
DispatchKeys == {NoKey} \cup {apiKeys[i] : i \in 1..Len(apiKeys)}

generateImage(p, key) ==
    LET input == PrepareParameters(parameters, <<"a", "cat">>)
    IN  /\ generations = 0
        /\ \A q \in Procs : pc[q] = "idle"
        /\ allParameters' = [allParameters EXCEPT ![p] = input]
        /\ EnterGenerateImage(p, key, input)
        /\ UNCHANGED <<model, apiKeys, activeKeyIndex, activeKey, parameters,
                       prompt, result, isGenerating, outcomes, advances, saves,
                       toast, rotations, timers, generations>>

\* handleGenerate with the outbound calls ending in the ways of FormOutcomes,
\* or else the one call of generateImage with every way of Outcomes.
NextDispatch ==
    \/ pc[2] = "idle" /\ \E text \in Prompts : UpdatePrompt(text)
    \/ pc[2] = "idle" /\ HandleGenerate(1)
    \/ \E o \in FormOutcomes : SubscribeSettle(1, o)
    \/ GenerateReturn(1)
    \/ SaveSettle(1, 1, "saved")
    \/ \E key \in DispatchKeys : generateImage(2, key)
    \/ \E o \in Outcomes : SubscribeSettle(2, o)

SpecDispatch == Init /\ [][NextDispatch]_vars

\* ------------------------------------------- generate actions that overlap
\* handleGenerate has no guard on isGenerating: a second generate action may
\* start while the first waits at line 188.  Each of the two invocations
\* runs once; the outbound calls end with images, with an exhausted balance
\* or with another failure.
OverlapOutcomes ==
    { o \in Outcomes :
        \/ o.ok /\ o.hasImages /\ Len(o.images) = 1
        \/ ~o.ok /\ o.error \in { ApiError(403, "string", BalanceDetail, ForbiddenText),
                                   PlainError(ServerErrorText) } }

\* The continuation of handleGenerate after line 188 is a microtask of the
\* turn in which generateImage returned: no click and no network event comes
\* between the two.
NoContinuationPending == \A q \in Procs : pc[q] # "returned"

NextOverlap ==
    \/ NoContinuationPending /\ UpdatePrompt(<<"a", "cat">>)
    \/ \E p \in Procs : NoContinuationPending /\ pc[p] = "idle" /\ HandleGenerate(p)
    \/ \E p \in Procs, o \in OverlapOutcomes :
          NoContinuationPending /\ SubscribeSettle(p, o)
    \/ \E p \in Procs : GenerateReturn(p)
    \/ \E p \in Procs : NoContinuationPending /\ SaveSettle(p, 1, "saved")

SpecOverlap == Init /\ [][NextOverlap]_vars

\* ---------------------------------------------------------------- properties
\* The vocabulary of the properties, stated on the values and not through the
\* operators that model the code.

\* An outbound call that failed with status 403 and a body whose detail
\* contains 'Exhausted balance'.
IsBalanceExhausted(o) ==
    /\ ~o.ok
    /\ o.error.status = 403
    /\ o.error.bodyTruthy
    /\ o.error.detailKind = "string"
    /\ \E i \in 1..(Len(o.error.detail) - 1) :
          o.error.detail[i] = "Exhausted" /\ o.error.detail[i + 1] = "balance"

\* An outbound call that produced images.
ProducedImages(o) == o.ok /\ o.hasImages /\ Len(o.images) > 0

\* The list index of a credential.
KeyIndex(key) == CHOOSE i \in 0..(Len(apiKeys) - 1) : apiKeys[i + 1] = key

\* generateImage was called by the invocation p and has settled.
Dispatched(p) == calls[p] # <<>> /\ pc[p] \in {"returned", "saving", "finished"}

\* The outbound call answers by credential: exhausted below index k, images
\* at index k.
AnswersByCredential(p, k) ==
    \A i \in 1..Len(outcomes[p]) :
        LET j == KeyIndex(calls[p][i].key)
        IN  /\ j < k => IsBalanceExhausted(outcomes[p][i])
            /\ j = k => ProducedImages(outcomes[p][i])

\* C1: with the active index 0, exhausted-balance failures on the credentials
\* 0..k-1 and images on credential k, one dispatch returns Success, its last
\* and successful outbound call used credential k, and
\* handleBalanceExhaustedError was called exactly k times.
C1_RotatesToFundedCredential ==
    \A p \in Procs : \A k \in 0..(Len(apiKeys) - 1) :
        ( /\ Dispatched(p)
          /\ KeyIndex(calls[p][1].key) = 0
          /\ AnswersByCredential(p, k) )
        => /\ response[p].kind = "success"
           /\ Len(calls[p]) = k + 1
           /\ calls[p][k + 1].key = apiKeys[k + 1]
           /\ ProducedImages(outcomes[p][k + 1])
           /\ advances[p] = k

C1_Witness ==
    /\ Len(apiKeys) = 3
    /\ pc[1] = "returned"
    /\ response[1].kind = "success"
    /\ Len(calls[1]) = 3
    /\ calls[1][1].key = apiKeys[1]
    /\ calls[1][3].key = apiKeys[3]
    /\ IsBalanceExhausted(outcomes[1][1])
    /\ IsBalanceExhausted(outcomes[1][2])
    /\ advances[1] = 2

\* C2: when every outbound call of a dispatch, from the active credential to
\* the end of the list, failed with an exhausted balance, the dispatch returns
\* a Failure whose errorCode is "ALL_KEYS_EXHAUSTED", and handleGenerate
\* reports that all keys are exhausted.
C2_AllKeysExhausted ==
    \A p \in Procs :
        ( /\ Dispatched(p)
          /\ \A i \in 1..Len(outcomes[p]) : IsBalanceExhausted(outcomes[p][i]) )
        => /\ response[p].kind = "failure"
           /\ response[p].errorCode = "ALL_KEYS_EXHAUSTED"
           /\ calls[p][Len(calls[p])].key = apiKeys[Len(apiKeys)]
           /\ pc[p] = "finished" => toast[p] = "allKeysExhausted"

C2_Witness ==
    /\ Len(apiKeys) = 2
    /\ pc[1] = "finished"
    /\ Len(outcomes[1]) = 2
    /\ IsBalanceExhausted(outcomes[1][1])
    /\ IsBalanceExhausted(outcomes[1][2])
    /\ response[1].errorCode = "ALL_KEYS_EXHAUSTED"

\* C3: one dispatch makes at most as many outbound calls as the list holds
\* credentials, and ends by returning a GenerationResult (a Success or a
\* Failure).
C3_ReturnsResultWithinListLength ==
    \A p \in Procs :
        /\ Len(calls[p]) <= Len(apiKeys)
        /\ pc[p] = "returned" => response[p].kind \in {"success", "failure"}

\* The part of C3 that is about the number of calls.
CallsWithinListLength == \A p \in Procs : Len(calls[p]) <= Len(apiKeys)

\* C4: within one dispatch every retry uses a credential at a strictly
\* greater list index than every credential tried before it, so that no
\* credential is submitted twice.
C4_RetriesStrictlyAdvance ==
    \A p \in Procs : \A i, j \in 1..Len(calls[p]) :
        i < j => KeyIndex(calls[p][i].key) < KeyIndex(calls[p][j].key)

C4_Witness ==
    /\ Len(calls[1]) = 3
    /\ pc[1] = "subscribe"
    /\ calls[1][2].key = apiKeys[2]
    /\ calls[1][3].key = apiKeys[3]

\* C5: from the active index 0 on a list of length N, the calls of advance()
\* return the credentials at the indices 1, 2, ..., N-1 in that order, then
\* none at the N-th call and at every later call; once none is returned the
\* store stays exhausted: no credential is active and index 0 is not taken
\* up again.
C5_AdvanceSequence ==
    (rotations # <<>> /\ rotations[1].from = 0)
    => /\ \A i \in 1..Len(rotations) :
            /\ rotations[i].returned =
                  IF i <= Len(apiKeys) - 1 THEN apiKeys[i + 1] ELSE NoKey
            /\ rotations[i].from = IF i <= Len(apiKeys) THEN i - 1 ELSE Len(apiKeys)
       /\ Len(rotations) >= Len(apiKeys)
            => activeKeyIndex = Len(apiKeys) /\ activeKey = NoKey
       /\ Len(rotations) < Len(apiKeys)
            => activeKeyIndex = Len(rotations)
               /\ activeKey = apiKeys[Len(rotations) + 1]

C5_Witness ==
    /\ Len(apiKeys) = 3
    /\ Len(rotations) = 5
    /\ rotations[1].from = 0
    /\ rotations[2].returned = apiKeys[3]
    /\ rotations[5].returned = NoKey

\* C6: the promise of generateImage never rejects: whatever the outbound call
\* throws, generateImage returns a GenerationResult.
C6_NeverRejects == \A p \in Procs : response[p].kind # "rejected"

\* The three balance signals as the specification words them.
\* (a) a structured body whose detail contains the fragment
WordedSignalBody(e) ==
    e.bodyTruthy /\ e.detailKind = "string" /\ IncludesFragment(e.detail)
\* (b) a message with a 403 marker and the fragment
WordedSignalMessage(e) ==
    e.messageIsString /\ IncludesWord(e.message, "403") /\ IncludesFragment(e.message)
\* (c) a JSON object embedded in the message whose detail contains the fragment
WordedSignalJson(e) ==
    /\ e.messageIsString
    /\ \E i, j \in 1..Len(e.message) :
          LET block == SubSeq(e.message, i, j)
          IN  /\ i < j
              /\ JsonParses(block)
              /\ JsonDetailIsString(block)
              /\ IncludesFragment(JsonDetail(block))
NoWordedSignal(e) ==
    ~WordedSignalBody(e) /\ ~WordedSignalMessage(e) /\ ~WordedSignalJson(e)

\* t holds the text s.
TextContains(t, s) ==
    \E i \in 1..(Len(t) - Len(s) + 1) : SubSeq(t, i, i + Len(s) - 1) = s

\* The outbound call that ended last in the invocation p.
LastOutcome(p) == outcomes[p][Len(outcomes[p])]

\* C7: when an outbound call fails and no balance signal matches, the
\* dispatch returns a Failure without errorCode whose message contains the
\* text of the error, without a further outbound call and without a call of
\* handleBalanceExhaustedError for that failure.
C7_OtherFailureReported ==
    \A p \in Procs :
        ( /\ pc[p] = "returned"
          /\ outcomes[p] # <<>>
          /\ ~LastOutcome(p).ok
          /\ NoWordedSignal(LastOutcome(p).error) )
        => /\ response[p].kind = "failure"
           /\ response[p].errorCode = ""
           /\ (LastOutcome(p).error.messageIsString
                => TextContains(response[p].error, LastOutcome(p).error.message))
           /\ Len(calls[p]) = Len(outcomes[p])
           /\ advances[p] = Len(outcomes[p]) - 1

\* C8: ensureValidNumImages returns the bag with num_images 4 when num_images
\* was greater than 4, and with num_images as it was, or still absent, when
\* it was at most 4 or absent; every other field is as it was.
C8_ClampsNumImages ==
    \A p \in Procs :
        pc[p] = "clamped"
        => /\ DOMAIN allParameters[p] = DOMAIN parameters
           /\ \A k \in DOMAIN parameters \ {"num_images"} :
                 allParameters[p][k] = parameters[k]
           /\ "num_images" \in DOMAIN parameters
                => allParameters[p].num_images =
                      IF parameters.num_images > 4 THEN 4 ELSE parameters.num_images

C8_Witness ==
    /\ pc[1] = "clamped"
    /\ "num_images" \in DOMAIN parameters
    /\ parameters.num_images = 6
    /\ "loras" \in DOMAIN parameters
    /\ allParameters[1].num_images = 4

\* C9: on a Success with k images saveGeneration is called exactly k times,
\* the i-th call with a record whose output.images holds the i-th image and
\* nothing else; on a Failure it is not called.
C9_OneSavePerImage ==
    \A p \in Procs :
        /\ (pc[p] \in {"saving", "finished"} /\ response[p].kind = "success")
            => /\ Len(saves[p]) = Len(response[p].images)
               /\ \A i \in 1..Len(saves[p]) :
                     saves[p][i].images = <<response[p].images[i]>>
        /\ response[p].kind = "failure" => saves[p] = <<>>

C9_Witness ==
    /\ pc[1] = "saving"
    /\ response[1].kind = "success"
    /\ Len(response[1].images) = 2
    /\ Len(saves[1]) = 2
    /\ saves[1][2].images = <<response[1].images[2]>>

C9_WitnessFailure ==
    pc[1] = "finished" /\ response[1].kind = "failure" /\ saves[1] = <<>>

\* C10: when the dispatch returned Success and a saveGeneration call fails,
\* the generation is still reported as a success: no failure is reported, the
\* result stays, and the saveGeneration calls of all images were issued.
C10_SaveFailureNotSurfaced ==
    \A p \in Procs :
        ( /\ response[p].kind = "success"
          /\ \E i \in 1..Len(saves[p]) : saves[p][i].state # "pending"
                                          /\ saves[p][i].state # "saved" )
        => /\ toast[p] \notin {"generateFailed", "switchingKey"}
           /\ Len(saves[p]) = Len(response[p].images)
           /\ result = response[p].images

\* The call of handleBalanceExhaustedError made last.
LastRotation == rotations[Len(rotations)]

\* C11: the active selection outlives the dispatch that made it: when the
\* last rotation moved the selection from the credential at index j to the one
\* at index j + 1, the first outbound call of every later generate action
\* uses the credential at index j + 1, not the one at index 0.
C11_SelectionSurvives ==
    \A p \in Procs :
        ( /\ rotations # <<>>
          /\ LastRotation.returned # NoKey
          /\ advances[p] = 0
          /\ calls[p] # <<>> )
        => /\ calls[p][1].key = LastRotation.returned
           /\ calls[p][1].key = apiKeys[LastRotation.from + 2]

C11_Witness ==
    /\ Len(apiKeys) = 3
    /\ Len(rotations) = 2
    /\ rotations[1].from = 0
    /\ generations = 2
    /\ pc[1] = "subscribe"
    /\ advances[1] = 0
    /\ calls[1] = <<[key |-> apiKeys[3], modelId |-> model.id,
                     input |-> allParameters[1]]>>

\* The outbound call that ended last in p failed, and this is the state in
\* which generateImage has dealt with it.
LastCallFailed(p) == outcomes[p] # <<>> /\ ~LastOutcome(p).ok

\* handleBalanceExhaustedError was called for the outbound call that ended
\* last in p: every earlier call of the chain was followed by a retry and so
\* by one call of it.
AdvancedForLastCall(p) == advances[p] = Len(outcomes[p])

\* C12, as claimed: a failed outbound call is classified as balance
\* exhaustion (handleBalanceExhaustedError is called for it) if and only if
\* (a) its body has a detail that contains the fragment, or (b) its message
\* contains a 403 marker and the fragment, or (c) a JSON object embedded in
\* its message has a detail that contains the fragment.
C12_ClassifiedIffSignal ==
    \A p \in Procs :
        LastCallFailed(p)
        => (AdvancedForLastCall(p) <=> ~NoWordedSignal(LastOutcome(p).error))

\* The signals as the code tests them, on the values.
\* (a) status 403 and a body whose detail is a string with the fragment
AmendedSignalBody(e) == e.status = 403 /\ WordedSignalBody(e)
\* (c) the text from the first "{" to the last "}" of the message is a JSON
\* object whose detail is a string with the fragment
AmendedSignalJson(e) ==
    /\ e.messageIsString
    /\ \E i, j \in 1..Len(e.message) :
          LET block == SubSeq(e.message, i, j)
          IN  /\ i < j
              /\ e.message[i] = "{" /\ e.message[j] = "}"
              /\ \A h \in 1..(i - 1) : e.message[h] # "{"
              /\ \A h \in (j + 1)..Len(e.message) : e.message[h] # "}"
              /\ JsonParses(block)
              /\ JsonDetailIsString(block)
              /\ IncludesFragment(JsonDetail(block))

\* C12, amended: a failed outbound call is classified as balance exhaustion
\* if and only if (a) its status is 403 and its body has a string detail that
\* contains the fragment, or (b) its message contains a 403 marker and the
\* fragment, or (c) the text from the first "{" to the last "}" of its message
\* is a JSON object whose detail contains the fragment.
C12_ClassifiedIffTestedSignal ==
    \A p \in Procs :
        LastCallFailed(p)
        => (AdvancedForLastCall(p)
              <=> \/ AmendedSignalBody(LastOutcome(p).error)
                  \/ WordedSignalMessage(LastOutcome(p).error)
                  \/ AmendedSignalJson(LastOutcome(p).error))

C12_Witness ==
    /\ Len(outcomes[1]) = 2
    /\ LastOutcome(1).error = PlainError(JsonBalanceText)
    /\ outcomes[1][1].error = PlainError(ForbiddenBalanceText)
    /\ advances[1] = 2
    /\ pc[1] = "subscribe"

\* C12's other side: a failure with a body that carries the fragment under
\* another status, and one with two JSON objects in its message, are not
\* classified.
C12_WitnessUnclassified ==
    /\ pc[1] = "returned"
    /\ LastCallFailed(1)
    /\ LastOutcome(1).error = PlainError(TwoBlocksText)
    /\ advances[1] = 0
    /\ response[1] = ErrorResponse(TwoBlocksText)

\* C13: the first signal that matches decides: handleBalanceExhaustedError
\* is called at most once for one failed outbound call, also when the error
\* satisfies several signals, and that call is followed by exactly one of a
\* retry and the ALL_KEYS_EXHAUSTED failure.
C13_FirstSignalDecides ==
    \A p \in Procs :
        /\ advances[p] <= Len(outcomes[p])
        /\ outcomes[p] # <<>> => advances[p] >= Len(outcomes[p]) - 1
        /\ (outcomes[p] # <<>> /\ AdvancedForLastCall(p))
            => LET retried == /\ Len(calls[p]) = Len(outcomes[p]) + 1
                              /\ pc[p] = "subscribe"
                              /\ response[p] = NoResponse
                   exhausted == /\ Len(calls[p]) = Len(outcomes[p])
                                /\ pc[p] # "subscribe"
                                /\ response[p].kind = "failure"
                                /\ response[p].errorCode = "ALL_KEYS_EXHAUSTED"
               IN  retried # exhausted

\* An error that satisfies the body signal and the message signal at once.
C13_Witness ==
    /\ Len(outcomes[1]) = 1
    /\ LastOutcome(1).error = ApiError(403, "string", BalanceDetail, ForbiddenBalanceText)
    /\ advances[1] = 1
    /\ Len(rotations) = 1
    /\ Len(calls[1]) = 2
    /\ pc[1] = "subscribe"

C13_WitnessExhausted ==
    /\ Len(outcomes[1]) = 1
    /\ LastOutcome(1).error = ApiError(403, "string", BalanceDetail, ForbiddenBalanceText)
    /\ advances[1] = 1
    /\ Len(rotations) = 1
    /\ response[1] = AllKeysExhausted

\* No credential is available to handleGenerate: none is stored under
\* fal-ai-active-key and the stored index points at none of the list.
NoCredential == activeKey = NoKey /\ ~(activeKeyIndex \in 0..(Len(apiKeys) - 1))

\* C14: a validation error is reported at once and nothing is retried: a
\* generate action with a blank prompt or without a credential makes no
\* outbound call, does not call handleBalanceExhaustedError and ends with an
\* error toast; generateImage called without a credential makes no outbound
\* call, does not call handleBalanceExhaustedError either and returns a
\* Failure without errorCode.
C14_ValidationNoRetry ==
    [][ /\ (generations' = generations + 1 /\ (IsBlank(prompt) \/ NoCredential))
            => /\ calls'[1] = <<>>
               /\ rotations' = rotations
               /\ advances'[1] = 0
               /\ pc'[1] = "finished"
               /\ toast'[1] = IF IsBlank(prompt) THEN "promptMissing" ELSE "keyMissing"
        /\ (pc[2] = "idle" /\ allParameters'[2] # allParameters[2] /\ apiKey'[2] = NoKey)
            => /\ calls'[2] = <<>>
               /\ rotations' = rotations
               /\ advances'[2] = 0
               /\ pc'[2] = "returned"
               /\ response'[2].kind = "failure"
               /\ response'[2].errorCode = ""
               /\ response'[2].error = MissingKeyText ]_vars

C14_Witness ==
    /\ pc[2] = "returned"
    /\ apiKey[2] = NoKey
    /\ calls[2] = <<>>
    /\ response[2] = ErrorResponse(MissingKeyText)
    /\ Len(apiKeys) = 2
    /\ activeKeyIndex = 0

\* The generate action without a prompt.
C14_WitnessPrompt ==
    /\ pc[1] = "finished"
    /\ generations = 2
    /\ toast[1] = "promptMissing"
    /\ calls[1] = <<>>
    /\ rotations # <<>>

\* The generate action after the list was used up.
C14_WitnessNoCredential ==
    /\ pc[1] = "finished"
    /\ toast[1] = "keyMissing"
    /\ calls[1] = <<>>
    /\ rotations # <<>>

\* The outbound call completed, and its image list is missing or empty.
CompletedWithoutImages(o) == o.ok /\ (~o.hasImages \/ Len(o.images) = 0)

\* C15: when the outbound call completes but its image list is missing or
\* empty, the dispatch returns a Failure that says no images were produced
\* and has no errorCode, makes no further outbound call and does not call
\* handleBalanceExhaustedError for it.
C15_EmptyResultReported ==
    \A p \in Procs :
        ( /\ outcomes[p] # <<>>
          /\ CompletedWithoutImages(LastOutcome(p)) )
        => /\ pc[p] # "subscribe"
           /\ response[p].kind = "failure"
           /\ response[p].error = NoImagesText
           /\ response[p].errorCode = ""
           /\ Len(calls[p]) = Len(outcomes[p])
           /\ advances[p] = Len(outcomes[p]) - 1
           /\ saves[p] = <<>>

\* An empty list answered to the retry that followed a rotation.
C15_Witness ==
    /\ pc[1] = "returned"
    /\ Len(outcomes[1]) = 2
    /\ LastOutcome(1).ok /\ LastOutcome(1).hasImages /\ LastOutcome(1).images = <<>>
    /\ response[1] = ErrorResponse(NoImagesText)
    /\ advances[1] = 1

C15_WitnessMissing ==
    /\ pc[1] = "finished"
    /\ Len(outcomes[1]) = 1
    /\ LastOutcome(1).ok /\ ~LastOutcome(1).hasImages
    /\ response[1] = ErrorResponse(NoImagesText)
    /\ toast[1] = "generateFailed"

\* C16: whatever initParameters, handleLoadSettings, the settings form and
\* handleGenerate did before, every parameter bag passed to generateImage has
\* num_images absent or at most 4.
C16_DispatchedNumImagesClamped ==
    \A p \in Procs : \A i \in 1..Len(calls[p]) :
        \/ "num_images" \notin DOMAIN calls[p][i].input
        \/ calls[p][i].input.num_images <= 4

\* The form holds 6, set by the form itself, and the retry of a generation
\* is in flight with 4.
C16_Witness ==
    /\ "num_images" \in DOMAIN parameters
    /\ parameters.num_images = 6
    /\ pc[1] = "subscribe"
    /\ Len(calls[1]) = 2
    /\ calls[1][1].input.num_images = 4
    /\ calls[1][2].input.num_images = 4

\* A saved setting with 6 was loaded and clamped on loading.
C16_WitnessLoaded ==
    /\ "num_images" \in DOMAIN parameters
    /\ parameters.num_images = 4
    /\ "image_size" \in DOMAIN parameters
    /\ parameters.image_size = <<"square">>
    /\ prompt = <<"a", "dog">>
    /\ pc[1] = "subscribe"
    /\ calls[1][1].input.num_images = 4

\* C17: every retry of a dispatch chain submits the model identifier and the
\* parameter bag of the chain's first outbound call; the attempts differ in
\* the credential only.
C17_RetriesSameRequest ==
    \A p \in Procs : \A i, j \in 1..Len(calls[p]) :
        /\ calls[p][i].modelId = calls[p][1].modelId
        /\ calls[p][i].input = calls[p][1].input
        /\ i # j => calls[p][i].key # calls[p][j].key

\* A retry in flight after the form was changed under the chain.
C17_Witness ==
    /\ pc[1] = "subscribe"
    /\ Len(calls[1]) = 3
    /\ calls[1][3].input = calls[1][1].input
    /\ calls[1][3].key = apiKeys[3]
    /\ PrepareParameters(parameters, prompt) # calls[1][1].input
    /\ "num_images" \in DOMAIN parameters
    /\ "num_images" \notin DOMAIN calls[1][1].input

\* None of the three signals, as the code tests them, holds of the error.
NoTestedSignal(e) ==
    ~AmendedSignalBody(e) /\ ~WordedSignalMessage(e) /\ ~AmendedSignalJson(e)

\* An outbound call that ended without a balance signal: with images, with
\* no images, or with a failure of another kind.
EndsWithoutSignal(o) ==
    \/ ProducedImages(o)
    \/ CompletedWithoutImages(o)
    \/ ~o.ok /\ NoTestedSignal(o.error)

\* C18: the dispatch leaves the credential store alone unless a balance
\* signal matched: over its entry (with or without a credential) and over
\* the step in which an outbound call ends with images, without images or
\* with a failure that carries no balance signal, the list, the active index
\* and the active credential stay as they were.
C18_StoreUnchangedWithoutSignal ==
    [][ \A p \in Procs :
          /\ ( /\ Len(outcomes'[p]) = Len(outcomes[p]) + 1
                /\ EndsWithoutSignal(outcomes'[p][Len(outcomes'[p])]) )
              => /\ apiKeys' = apiKeys
                 /\ activeKeyIndex' = activeKeyIndex
                 /\ activeKey' = activeKey
                 /\ rotations' = rotations
          /\ (p = 2 /\ pc[p] = "idle" /\ pc'[p] # "idle")
              => /\ apiKeys' = apiKeys
                 /\ activeKeyIndex' = activeKeyIndex
                 /\ activeKey' = activeKey
                 /\ rotations' = rotations ]_vars

\* A failure with the fragment in its body under status 500 ended a dispatch
\* that started at index 1, and the store is as it was set up.
C18_Witness ==
    /\ pc[2] = "returned"
    /\ Len(outcomes[2]) = 1
    /\ outcomes[2][1].error = ApiError(500, "string", BalanceDetail, ServerErrorText)
    /\ response[2] = ErrorResponse(ServerErrorText)
    /\ Len(apiKeys) = 3
    /\ activeKeyIndex = 1
    /\ activeKey = apiKeys[2]
    /\ rotations = <<>>

\* The chain p submitted the credential at index j.
SubmittedBy(p, j) == \E i \in 1..Len(calls[p]) : calls[p][i].key = apiKeys[j + 1]

\* The chain p skipped the credential at index j: it went on to a credential
\* behind it, or reported ALL_KEYS_EXHAUSTED, without having submitted it.
SkippedBy(p, j) ==
    /\ calls[p] # <<>>
    /\ j > KeyIndex(calls[p][1].key)
    /\ ~SubmittedBy(p, j)
    /\ \/ \E i \in 1..Len(calls[p]) : KeyIndex(calls[p][i].key) > j
       \/ response[p].errorCode = "ALL_KEYS_EXHAUSTED"

\* Every credential the active pointer was advanced to was submitted by one
\* of the chains.
PassedCredentialsSubmitted ==
    \A j \in 0..(Len(apiKeys) - 1) :
        (rotations # <<>> /\ rotations[1].from < j /\ j <= activeKeyIndex)
        => \E p \in Procs : SubmittedBy(p, j)

\* A chain that made every rotation itself skipped no credential.
SingleChainSkipsNone ==
    \A p \in Procs :
        Len(rotations) = advances[p]
        => \A j \in 0..(Len(apiKeys) - 1) : ~SkippedBy(p, j)

C19_WitnessSkip ==
    /\ Len(apiKeys) = 3
    /\ Len(calls[2]) = 2
    /\ calls[2][1].key = apiKeys[1]
    /\ calls[2][2].key = apiKeys[3]
    /\ SkippedBy(2, 1)
    /\ SubmittedBy(1, 1)

\* The invocation p of handleGenerate is in flight: it passed the prompt
\* check and the credential check and has not reached the end of its
\* finally block.
InFlight(p) == pc[p] \in {"subscribe", "returned", "saving"}

\* C20: isGenerating is true exactly while an invocation of handleGenerate
\* is in flight: false before any generate action and after every way the
\* action ends, true from the prompt check to the end, never left true with
\* nothing in flight and never false with an invocation in flight, also when
\* invocations overlap.
C20_IsGeneratingWhileInFlight ==
    isGenerating <=> \E p \in Procs : InFlight(p)

====
